---- MODULE Spec2Model ----
(***************************************************************************)
(* Model of the browser voice client in static/script.js: the playback     *)
(* scheduler (wavChunkToFloat32, schedulePlayback, the tts_* branches of   *)
(* ws.onmessage) and the session controller (startSession, stopSession,    *)
(* the socket callbacks and the button wiring).                            *)
(*                                                                         *)
(* Time is counted in output frames: one unit is 1 / OUTPUT_RATE seconds,  *)
(* so a chunk of n samples lasts n units and the 0.05 s lookahead is       *)
(* 2205 units.                                                             *)
(***************************************************************************)
EXTENDS Integers, Sequences, FiniteSets, TLC

VARIABLES
    \* ---- playback state (script.js lines 8-10) and the device clock
    playQueue,       \* pending decoded chunks, in arrival order
    playheadTime,    \* the playback cursor, in frames
    wavHeaderSeen,   \* header already stripped in this segment
    currentTime,     \* audioContext.currentTime, in frames
    \* ---- observations of the playback run (history, not program state)
    arrived,         \* one record per tts_chunk message handled
    scheduled,       \* one record per src.start() call, in call order
    segPos,          \* payloads received since the last tts_begin
    segBig,          \* a payload of >= 44 bytes was received in this segment
    lastEvent,       \* the handler that produced the current state
    \* ---- session state (script.js lines 2-6, 11, 18-19); every object is
    \* named by the number of the startSession call that created it, 0 = null
    ws, audioContext, source, processor, mediaStream,
    userBubble,      \* the user entry updateUserBubble writes to: its place in
                     \* the transcript, 0 = null
    startDisabled,   \* startBtn.disabled
    stopDisabled,    \* stopBtn.disabled
    pc,              \* where each startSession call stands
    ctx,             \* state of each AudioContext
    sock,            \* readyState of each WebSocket
    stream,          \* each MediaStream's tracks: none, live, stopped
    proc,            \* each ScriptProcessorNode: none, connected, disconnected
    src,             \* each MediaStreamAudioSourceNode, likewise
    pctx,            \* the context each capture graph was built on
    listening,       \* the "Listening..." entries added, by socket
    \* ---- observations of the session run (history, not program state)
    remoteClosed,    \* sockets closed without ws.close() having been called
    lastStop,        \* whether stopSession ran since the last start click, and
                     \* whether a startSession call was suspended when it ran
    \* ---- transcript state (chatBox, and lastAssistant of each startSession call)
    chatBox,         \* the transcript entries, in display order
    lastAssistant,   \* the de-duplication memory of each socket's onmessage
    dupDropped,      \* observation: sockets that dropped a repeated assistant text
    \* ---- capture (processor.onaudioprocess)
    sampleRate,      \* audioContext.sampleRate, the rate of the audio device
    captured,        \* capture callbacks that have fired
    sent,            \* observation: the binary frames sent, in ws.send order
    \* ---- one call of downsampleBuffer
    resIn,           \* its arguments
    resOut,          \* what it returned, once it has
    \* ---- a continuous stream of capture frames
    streamed,        \* frames resampled so far
    streamedOut,     \* samples they produced in total
    \* ---- the upload mode (part_000 lines 1-5 and its page)
    mediaRecorder,   \* state of the recorder: none, recording, stopping (stop()
                     \* called, its stop event pending), inactive
    uploadQueue,     \* clips waiting to be uploaded, oldest first
    isUploading,
    isRecording,
    micRequest,      \* a startRecording call is waiting for getUserMedia
    recStartDisabled, \* startBtn.disabled on that page
    recStopDisabled,  \* stopBtn.disabled
    inflight,        \* the calls of processUploadQueue past line 79: the clip
                     \* of each and the await it stands at
    audioPlayer,     \* idle, loading (play() pending), playing
    onended,         \* audioPlayer.onended is set
    errorMsg,        \* errorMsg.innerText: "", "mic" or "upload"
    \* ---- observations of the upload run (history, not program state)
    clips,           \* clips pushed so far; a clip is named by its rank
    attempts,        \* the clips whose fetch was started, in that order
    failed           \* the clips whose upload ended in the catch block

playVars == <<playQueue, playheadTime, wavHeaderSeen, currentTime,
              arrived, scheduled, segPos, segBig, lastEvent>>

sessionVars == <<ws, audioContext, source, processor, mediaStream, userBubble,
                 startDisabled, stopDisabled, pc, ctx, sock, stream, proc, src,
                 pctx, listening>>

obsVars == <<remoteClosed, lastStop>>

transcriptVars == <<chatBox, lastAssistant, dupDropped>>

captureVars == <<sampleRate, captured, sent>>

resampleVars == <<resIn, resOut>>

streamVars == <<streamed, streamedOut>>

uploadVars == <<mediaRecorder, uploadQueue, isUploading, isRecording,
                micRequest, recStartDisabled, recStopDisabled, inflight,
                audioPlayer, onended, errorMsg, clips, attempts, failed>>

\* what the session, playback and transcript handlers neither read nor write
asideVars == <<captureVars, resampleVars, streamVars, uploadVars>>

vars == <<playVars, sessionVars, obsVars, transcriptVars, asideVars>>

----------------------------------------------------------------------------
(* Program constants *)

OUTPUT_RATE == 44100

WAV_HEADER_BYTES == 44

\* LOOKAHEAD = 0.05 s, in frames
LOOKAHEAD == (5 * OUTPUT_RATE) \div 100

----------------------------------------------------------------------------
(* Bounds of the model *)

\* tts_chunk messages handled in one run
MaxChunks == 3

\* transcript entries up to which assistant messages are followed
MaxEntries == 3

\* msg.text of assistant and turn_end messages
RawTexts == {<<>>, <<" ">>, <<"a">>, <<" ", "a", " ">>, <<"b">>}

\* recordings made in one run of the upload page
MaxClips == 3

\* capture callbacks followed in one run
MaxFrames == 3

\* capture frames of a continuous stream
MaxStreamFrames == 30

\* lengths of the buffers downsampleBuffer is called on, every content of
\* which is tried
MaxLen == 4

\* startSession calls in one run
MaxStarts == 2

Starts == 1..MaxStarts

\* the device clock is observed in steps of this many frames (a browser's
\* render quantum)
ClockQuantum == 128

\* the device clock is followed up to this many quanta
MaxClockQuanta == 28

\* the clock is observed after jumps of these many render quanta
ClockJumps == {8, 20}

\* audio_b64 payloads: decodable ones of these sizes, and an undecodable one
PayloadLens == {0, 10, 44, 47, 2604}

Payloads == [valid : {TRUE}, len : PayloadLens]
                \cup {[valid |-> FALSE, len |-> 2604]}

\* the payloads of a session followed across a stop and a new start: one
\* shorter than a header, a bare header, a header with samples, and the
\* undecodable one
MessagePayloads == {b64 \in Payloads : b64.len \in {10, 44, 2604}}

----------------------------------------------------------------------------
(* Decoding *)

\* base64ToUint8Array without the catch: what atob rejected is taken as bytes.
base64ToUint8Array_NoCatch(b64) == b64.len

\* Number of bytes base64ToUint8Array returns: an empty array when atob throws.
base64ToUint8Array(b64) == IF b64.valid THEN b64.len ELSE 0

\* wavChunkToFloat32 with the header test never remembering the header.
wavChunkToFloat32_StripAlways(b64, seen) ==
    LET n == base64ToUint8Array(b64) IN
    IF n = 0 THEN [seen |-> seen, off |-> 0, samples |-> 0]
    ELSE IF n >= WAV_HEADER_BYTES
         THEN [seen |-> TRUE, off |-> WAV_HEADER_BYTES,
               samples |-> (n - WAV_HEADER_BYTES) \div 2]
    ELSE IF seen THEN [seen |-> TRUE, off |-> 0, samples |-> n \div 2]
    ELSE [seen |-> FALSE, off |-> 0, samples |-> 0]

\* wavChunkToFloat32: the new value of wavHeaderSeen, the byte offset at which
\* the PCM view starts (pcmU8 = bytes.subarray(off)) and the number of samples
\* (pcmU8.byteLength >> 1).
wavChunkToFloat32(b64, seen) ==
    LET n == base64ToUint8Array(b64) IN
    IF n = 0 THEN [seen |-> seen, off |-> 0, samples |-> 0]
    ELSE IF ~seen /\ n >= WAV_HEADER_BYTES
         THEN [seen |-> TRUE, off |-> WAV_HEADER_BYTES,
               samples |-> (n - WAV_HEADER_BYTES) \div 2]
    ELSE IF seen THEN [seen |-> TRUE, off |-> 0, samples |-> n \div 2]
    ELSE [seen |-> FALSE, off |-> 0, samples |-> 0]

----------------------------------------------------------------------------
(* Scheduling *)

\* startTime without the comparison: every chunk starts at now + LOOKAHEAD.
startTime_NoCompare(playhead, now) == now + LOOKAHEAD

\* startTime with the cursor raised to now only, the lookahead margin forgotten.
startTime_NoLookahead(playhead, now) ==
    IF playhead < now THEN now ELSE playhead

\* Start time given to a chunk: the cursor, raised to now + LOOKAHEAD
\* (script.js line 117).
startTime(playhead, now) ==
    IF playhead < now + LOOKAHEAD THEN now + LOOKAHEAD ELSE playhead

RECURSIVE drain(_, _, _, _)
\* The while loop of schedulePlayback: shifts every chunk off the queue, skips
\* empty ones, starts the others at the cursor and advances the cursor.
drain(queue, playhead, now, started) ==
    IF queue = <<>>
    THEN [queue |-> queue, playhead |-> playhead, started |-> started]
    ELSE LET chunk == Head(queue) IN
         IF chunk.samples = 0
         THEN drain(Tail(queue), playhead, now, started)
         ELSE LET at == startTime(playhead, now) IN
              drain(Tail(queue), at + chunk.samples, now,
                    Append(started, [id |-> chunk.id, samples |-> chunk.samples,
                                     start |-> at, now |-> now]))

\* schedulePlayback discarding the chunks that arrive after the cursor has
\* already fallen behind the device clock.
schedulePlayback_DropsLate(queue, playhead, now) ==
    IF playhead < now
    THEN [queue |-> <<>>, playhead |-> playhead, started |-> <<>>]
    ELSE drain(queue, playhead, now, <<>>)

\* schedulePlayback: audioContext is set for as long as a socket exists, so the
\* early return of line 107 is not taken; now is read once, before the loop.
schedulePlayback(queue, playhead, now) == drain(queue, playhead, now, <<>>)


----------------------------------------------------------------------------
(* Transcript *)

\* A text is a tuple of characters; " " stands for any white space.
Blank == " "

\* the text of the entry ws.onopen adds
Listening == <<"L">>

RECURSIVE trimStart(_)
trimStart(t) == IF t # <<>> /\ Head(t) = Blank THEN trimStart(Tail(t)) ELSE t

RECURSIVE trimEnd(_)
trimEnd(t) ==
    IF t # <<>> /\ t[Len(t)] = Blank THEN trimEnd(SubSeq(t, 1, Len(t) - 1)) ELSE t

\* String.prototype.trim
trim(t) == trimEnd(trimStart(t))

\* addMessage: nothing for an empty text; otherwise one entry appended.  `by`
\* is the socket whose message an assistant entry renders, 0 for a user entry.
\* `final` records whether a turn_end has written the entry.
addMessage(chat, role, text, by) ==
    IF text = <<>> THEN chat
    ELSE Append(chat, [role |-> role, text |-> text,
                       by |-> IF role = "assistant" THEN by ELSE 0,
                       final |-> FALSE])

\* updateUserBubble: writes the text of the entry userBubble points at.
updateUserBubble(chat, bubble, text) ==
    IF bubble = 0 THEN chat
    ELSE [chat EXCEPT ![bubble].text = text, ![bubble].final = TRUE]

\* chatBox.innerHTML = "" (line 190) and no socket yet
FreshTranscript ==
    /\ chatBox = <<>>
    /\ lastAssistant = [i \in Starts |-> <<>>]

\* the transcript of ActivePage: the first socket has opened
ActiveTranscript ==
    /\ chatBox = addMessage(<<>>, "user", Listening, 1)
    /\ lastAssistant = [i \in Starts |-> <<>>]

----------------------------------------------------------------------------
(* Capture: downsampleBuffer, floatTo16BitPCM *)

AAI_SEND_RATE == 16000

\* createScriptProcessor(4096, 1, 1): the frames of one capture callback
BUFFER_SIZE == 4096

\* Math.round(a / b) for a >= 0 and b > 0: the nearest integer, halves upwards
Round(a, b) == (2 * a + b) \div (2 * b)

\* Math.floor(a / b)
Floor(a, b) == a \div b

RECURSIVE accumulate(_, _, _, _)
\* The for loop of lines 37-39 from index `from` (0-based) up to, not
\* including, `to` or the end of the buffer (its length is `len`): the sum
\* and the count.
accumulate(buffer, len, from, to) ==
    IF from >= to \/ from >= len THEN [accum |-> 0, count |-> 0]
    ELSE LET rest == accumulate(buffer, len, from + 1, to)
         IN [accum |-> buffer[from + 1] + rest.accum, count |-> rest.count + 1]

\* The length of the result with the quotient rounded down.
downsampledLength_Floor(len, inRate, outRate) ==
    IF outRate = inRate THEN len ELSE Floor(len * outRate, inRate)

\* The length of what downsampleBuffer returns for a buffer of len samples:
\* the buffer itself when the rates are equal (line 29), otherwise a
\* Float32Array(newLen), newLen = Math.round(buffer.length / ratio) with
\* ratio = inRate / outRate (lines 30-32).
downsampledLength(len, inRate, outRate) ==
    IF outRate = inRate THEN len ELSE Round(len * outRate, inRate)

\* downsampleBuffer: the input itself when the rates are equal; otherwise
\* newLen entries, entry offsetResult averaging the input from offsetBuffer,
\* which is the nextOffsetBuffer of the entry before (0 for the first), to
\* Math.round((offsetResult + 1) * ratio).  An entry is kept as the pair
\* (accum, count) of its average accum / count, 0 when count is 0.
downsampleBuffer(buffer, inRate, outRate) ==
    IF outRate = inRate THEN buffer
    ELSE LET len == Len(buffer)
             newLen == downsampledLength(len, inRate, outRate)
         IN [k \in 1..newLen |->
               accumulate(buffer, len, Round((k - 1) * inRate, outRate),
                                       Round(k * inRate, outRate))]

\* floatTo16BitPCM: the byte length of the buffer it returns for an array of
\* len samples
floatTo16BitPCM(len) == len * 2

\* the state of the socket the page holds, "none" when ws is null
readyState == IF ws = 0 THEN "none" ELSE sock[ws]

\* onaudioprocess sending whatever the state of the socket.
onaudioprocess_NoStateTest(state, inputLen, rate) ==
    LET downsampled == downsampledLength(inputLen, rate, AAI_SEND_RATE)
    IN IF downsampled = 0 THEN <<>> ELSE <<floatTo16BitPCM(downsampled)>>

\* processor.onaudioprocess (lines 168-174) for an input buffer of inputLen
\* frames: the byte lengths of the frames it hands to ws.send, none or one.
onaudioprocess(state, inputLen, rate) ==
    IF state # "OPEN" THEN <<>>
    ELSE LET downsampled == downsampledLength(inputLen, rate, AAI_SEND_RATE)
         IN IF downsampled = 0 THEN <<>> ELSE <<floatTo16BitPCM(downsampled)>>

\* a capture buffer of n frames of silence
Silence(n) == [k \in 1..n |-> 0]

NoCapture ==
    /\ sampleRate = OUTPUT_RATE
    /\ captured = 0
    /\ sent = <<>>

NoResample ==
    /\ resIn = [buffer |-> <<>>, inRate |-> AAI_SEND_RATE, outRate |-> AAI_SEND_RATE]
    /\ resOut = <<>>

NoStream ==
    /\ streamed = 0
    /\ streamedOut = 0

\* the upload page as loaded (part_000 lines 1-5)
NoUpload ==
    /\ mediaRecorder = "none"
    /\ uploadQueue = <<>>
    /\ isUploading = FALSE
    /\ isRecording = FALSE
    /\ micRequest = FALSE
    /\ recStartDisabled = FALSE
    /\ recStopDisabled = FALSE
    /\ inflight = {}
    /\ audioPlayer = "idle"
    /\ onended = FALSE
    /\ errorMsg = ""
    /\ clips = 0
    /\ attempts = <<>>
    /\ failed = {}

----------------------------------------------------------------------------
(* Session state *)

\* The state the handlers of the session controller read and write.
Session ==
    [ws |-> ws, audioContext |-> audioContext, source |-> source,
     processor |-> processor, mediaStream |-> mediaStream,
     userBubble |-> userBubble, startDisabled |-> startDisabled,
     stopDisabled |-> stopDisabled, pc |-> pc, ctx |-> ctx, sock |-> sock,
     stream |-> stream, proc |-> proc, src |-> src, pctx |-> pctx,
     listening |-> listening]

SetSession(s) ==
    /\ ws' = s.ws
    /\ audioContext' = s.audioContext
    /\ source' = s.source
    /\ processor' = s.processor
    /\ mediaStream' = s.mediaStream
    /\ userBubble' = s.userBubble
    /\ startDisabled' = s.startDisabled
    /\ stopDisabled' = s.stopDisabled
    /\ pc' = s.pc
    /\ ctx' = s.ctx
    /\ sock' = s.sock
    /\ stream' = s.stream
    /\ proc' = s.proc
    /\ src' = s.src
    /\ pctx' = s.pctx
    /\ listening' = s.listening

SessionIs(s) ==
    /\ ws = s.ws
    /\ audioContext = s.audioContext
    /\ source = s.source
    /\ processor = s.processor
    /\ mediaStream = s.mediaStream
    /\ userBubble = s.userBubble
    /\ startDisabled = s.startDisabled
    /\ stopDisabled = s.stopDisabled
    /\ pc = s.pc
    /\ ctx = s.ctx
    /\ sock = s.sock
    /\ stream = s.stream
    /\ proc = s.proc
    /\ src = s.src
    /\ pctx = s.pctx
    /\ listening = s.listening

\* The page after DOMContentLoaded: nothing created, stop disabled (line 189).
FreshPage ==
    [ws |-> 0, audioContext |-> 0, source |-> 0, processor |-> 0,
     mediaStream |-> 0, userBubble |-> 0,
     startDisabled |-> FALSE, stopDisabled |-> TRUE,
     pc |-> [i \in Starts |-> "idle"],
     ctx |-> [i \in Starts |-> "none"],
     sock |-> [i \in Starts |-> "none"],
     stream |-> [i \in Starts |-> "none"],
     proc |-> [i \in Starts |-> "none"],
     src |-> [i \in Starts |-> "none"],
     pctx |-> [i \in Starts |-> 0],
     listening |-> [i \in Starts |-> FALSE]]

\* The first startSession call ran to its end and its socket opened.
ActivePage ==
    [FreshPage EXCEPT
        !.ws = 1, !.audioContext = 1, !.source = 1, !.processor = 1,
        !.mediaStream = 1, !.userBubble = 1,
        !.startDisabled = TRUE, !.stopDisabled = FALSE,
        !.pc[1] = "done", !.ctx[1] = "running", !.sock[1] = "OPEN",
        !.stream[1] = "live", !.proc[1] = "connected", !.src[1] = "connected",
        !.pctx[1] = 1, !.listening[1] = TRUE]

NoObservations ==
    /\ remoteClosed = {}
    /\ lastStop = "none"
    /\ dupDropped = {}

ActiveSession == SessionIs(ActivePage) /\ NoObservations

----------------------------------------------------------------------------
(* Playback: the tts_begin and tts_chunk branches of ws.onmessage, and the *)
(* device clock.                                                           *)

\* the playback state startSession leaves (line 124), nothing received yet
ActivePlayback ==
    /\ playQueue = <<>>
    /\ playheadTime = 0
    /\ wavHeaderSeen = FALSE
    /\ currentTime = 0
    /\ arrived = <<>>
    /\ scheduled = <<>>
    /\ segPos = 0
    /\ segBig = FALSE
    /\ lastEvent = "startSession"

InitPlayback ==
    /\ ActivePlayback
    /\ ActiveSession
    /\ ActiveTranscript
    /\ NoCapture
    /\ NoResample
    /\ NoStream
    /\ NoUpload

\* A text message is delivered to ws.onmessage only while its socket is open.
Delivering == ws # 0 /\ sock[ws] = "OPEN"

\* case "tts_begin"
TtsBegin ==
    /\ Delivering
    /\ playQueue' = <<>>
    /\ wavHeaderSeen' = FALSE
    /\ playheadTime' = currentTime + LOOKAHEAD
    /\ segPos' = 0
    /\ segBig' = FALSE
    /\ lastEvent' = "tts_begin"
    /\ UNCHANGED <<currentTime, arrived, scheduled, sessionVars, obsVars>>
    /\ UNCHANGED transcriptVars
    /\ UNCHANGED asideVars

\* case "tts_chunk"
TtsChunk(b64) ==
    /\ Delivering
    /\ Len(arrived) < MaxChunks
    /\ LET f32 == wavChunkToFloat32(b64, wavHeaderSeen)
           id == Len(arrived) + 1
           pushed == IF f32.samples > 0
                     THEN Append(playQueue, [id |-> id, samples |-> f32.samples])
                     ELSE playQueue
           out == IF f32.samples > 0
                  THEN schedulePlayback(pushed, playheadTime, currentTime)
                  ELSE [queue |-> playQueue, playhead |-> playheadTime,
                        started |-> <<>>]
       IN /\ wavHeaderSeen' = f32.seen
          /\ playQueue' = out.queue
          /\ playheadTime' = out.playhead
          /\ scheduled' = scheduled \o out.started
          /\ arrived' = Append(arrived,
                 [id |-> id, valid |-> b64.valid,
                  bytes |-> base64ToUint8Array(b64),
                  off |-> f32.off, samples |-> f32.samples,
                  pos |-> segPos + 1, priorBig |-> segBig])
          /\ segPos' = segPos + 1
          /\ segBig' = (segBig \/ base64ToUint8Array(b64) >= WAV_HEADER_BYTES)
    /\ lastEvent' = "tts_chunk"
    /\ UNCHANGED <<currentTime, sessionVars, obsVars>>
    /\ UNCHANGED transcriptVars
    /\ UNCHANGED asideVars

\* The audio device advances its clock between two handlers.
ClockAdvance(q) ==
    /\ currentTime + q * ClockQuantum <= MaxClockQuanta * ClockQuantum
    /\ currentTime' = currentTime + q * ClockQuantum
    /\ lastEvent' = "clock"
    /\ UNCHANGED <<playQueue, playheadTime, wavHeaderSeen,
                   arrived, scheduled, segPos, segBig, sessionVars, obsVars>>
    /\ UNCHANGED transcriptVars
    /\ UNCHANGED asideVars

NextPlayback ==
    \/ TtsBegin
    \/ \E b64 \in Payloads : TtsChunk(b64)
    \/ \E q \in ClockJumps : ClockAdvance(q)

SpecPlayback == InitPlayback /\ [][NextPlayback]_vars

----------------------------------------------------------------------------
(* Session controller *)

\* The five release steps of stopSession, in the order of lines 179-183.
ReleaseSteps == <<"processor", "source", "ws", "tracks", "context">>

StepNames == {ReleaseSteps[k] : k \in 1..Len(ReleaseSteps)}

\* One release step; each is a no-op on null (?.) and on an object already
\* released.
release(s, step) ==
    CASE step = "processor" ->
            IF s.processor # 0 /\ s.proc[s.processor] = "connected"
            THEN [s EXCEPT !.proc[s.processor] = "disconnected"] ELSE s
      [] step = "source" ->
            IF s.source # 0 /\ s.src[s.source] = "connected"
            THEN [s EXCEPT !.src[s.source] = "disconnected"] ELSE s
      [] step = "ws" ->
            IF s.ws # 0 /\ s.sock[s.ws] \in {"CONNECTING", "OPEN"}
            THEN [s EXCEPT !.sock[s.ws] = "CLOSING"] ELSE s
      [] step = "tracks" ->
            IF s.mediaStream # 0 /\ s.stream[s.mediaStream] = "live"
            THEN [s EXCEPT !.stream[s.mediaStream] = "stopped"] ELSE s
      [] step = "context" ->
            IF s.audioContext # 0 /\ s.ctx[s.audioContext] \in {"suspended", "running"}
            THEN [s EXCEPT !.ctx[s.audioContext] = "closed"] ELSE s

\* line 184
idleControls(s) ==
    [s EXCEPT !.startDisabled = FALSE, !.stopDisabled = TRUE, !.userBubble = 0]

RECURSIVE releaseFrom(_, _, _)
\* Steps k.. of stopSession, each in its own try block: a step of `failing`
\* throws before it has any effect, and the next step runs all the same.
releaseFrom(s, k, failing) ==
    IF k > Len(ReleaseSteps) THEN s
    ELSE IF ReleaseSteps[k] \in failing
         THEN releaseFrom(s, k + 1, failing)
         ELSE releaseFrom(release(s, ReleaseSteps[k]), k + 1, failing)

RECURSIVE releaseFrom_OneTry(_, _, _)
\* The release steps inside one try block: the first throw skips the rest.
releaseFrom_OneTry(s, k, failing) ==
    IF k > Len(ReleaseSteps) THEN s
    ELSE IF ReleaseSteps[k] \in failing
         THEN s
         ELSE releaseFrom_OneTry(release(s, ReleaseSteps[k]), k + 1, failing)

\* stopSession with a single try block around the five release steps.
stopSession_OneTry(s, failing) == idleControls(releaseFrom_OneTry(s, 1, failing))

\* stopSession, for a run in which the release steps of `failing` throw.
stopSession(s, failing) == idleControls(releaseFrom(s, 1, failing))

InitSession ==
    /\ SessionIs(FreshPage)
    /\ NoObservations
    /\ playQueue = <<>>
    /\ playheadTime = 0
    /\ wavHeaderSeen = FALSE
    /\ currentTime = 0
    /\ arrived = <<>>
    /\ scheduled = <<>>
    /\ segPos = 0
    /\ segBig = FALSE
    /\ lastEvent = "load"
    /\ FreshTranscript
    /\ NoCapture
    /\ NoResample
    /\ NoStream
    /\ NoUpload

Suspended(i) == pc[i] \in {"resume", "gum"}

\* startSession with the cursor left where the previous session put it.
StartClick_KeepsCursor(i) ==
    /\ ~startDisabled
    /\ pc[i] = "idle"
    /\ \A j \in Starts : j < i => pc[j] # "idle"
    /\ SetSession([Session EXCEPT !.userBubble = 0, !.audioContext = i,
                                  !.ctx[i] = "suspended", !.pc[i] = "resume"])
    /\ playQueue' = <<>>
    /\ wavHeaderSeen' = FALSE
    /\ currentTime' = 0
    /\ segPos' = 0
    /\ segBig' = FALSE
    /\ lastEvent' = "startSession"
    /\ lastStop' = "none"
    /\ UNCHANGED <<playheadTime, arrived, scheduled, remoteClosed>>
    /\ UNCHANGED transcriptVars
    /\ UNCHANGED asideVars

\* A click on startBtn, which a disabled button does not deliver: startSession
\* up to its first await (lines 124-126).
StartClick(i) ==
    /\ ~startDisabled
    /\ pc[i] = "idle"
    /\ \A j \in Starts : j < i => pc[j] # "idle"
    /\ SetSession([Session EXCEPT !.userBubble = 0, !.audioContext = i,
                                  !.ctx[i] = "suspended", !.pc[i] = "resume"])
    /\ playQueue' = <<>>
    /\ wavHeaderSeen' = FALSE
    /\ playheadTime' = 0
    /\ currentTime' = 0
    /\ segPos' = 0
    /\ segBig' = FALSE
    /\ lastEvent' = "startSession"
    /\ lastStop' = "none"
    /\ UNCHANGED <<arrived, scheduled, remoteClosed>>
    /\ UNCHANGED transcriptVars
    /\ UNCHANGED asideVars

\* audioContext.resume() resolves: startSession runs on to its second await
\* (lines 128-163), creating the socket.
ResumeResolved(i) ==
    /\ pc[i] = "resume"
    /\ SetSession([Session EXCEPT
            !.ctx[i] = IF @ = "closed" THEN "closed" ELSE "running",
            !.ws = i, !.sock[i] = "CONNECTING", !.pc[i] = "gum"])
    /\ lastAssistant' = [lastAssistant EXCEPT ![i] = <<>>]
    /\ UNCHANGED <<playVars, obsVars>>
    /\ UNCHANGED <<chatBox, dupDropped>>
    /\ UNCHANGED asideVars

\* The context was closed while resume() was pending and the promise is
\* rejected: startSession ends there.
ResumeRejected(i) ==
    /\ pc[i] = "resume"
    /\ ctx[i] = "closed"
    /\ SetSession([Session EXCEPT !.pc[i] = "failed"])
    /\ UNCHANGED <<playVars, obsVars>>
    /\ UNCHANGED transcriptVars
    /\ UNCHANGED asideVars

\* getUserMedia resolves: lines 163-175 build the capture graph on whatever
\* audioContext then refers to.
MicGranted(i) ==
    /\ pc[i] = "gum"
    /\ SetSession([Session EXCEPT
            !.mediaStream = i, !.stream[i] = "live",
            !.source = i, !.src[i] = "connected",
            !.processor = i, !.proc[i] = "connected",
            !.pctx[i] = audioContext, !.pc[i] = "done"])
    /\ UNCHANGED <<playVars, obsVars>>
    /\ UNCHANGED transcriptVars
    /\ UNCHANGED asideVars

\* getUserMedia resolves but audioContext is closed and the browser refuses to
\* create a node on it: line 166 throws with the stream already acquired.
MicGrantedGraphThrows(i) ==
    /\ pc[i] = "gum"
    /\ ctx[audioContext] = "closed"
    /\ SetSession([Session EXCEPT
            !.mediaStream = i, !.stream[i] = "live", !.pc[i] = "failed"])
    /\ UNCHANGED <<playVars, obsVars>>
    /\ UNCHANGED transcriptVars
    /\ UNCHANGED asideVars

\* getUserMedia rejects: line 164 logs to the console and returns.
MicDenied(i) ==
    /\ pc[i] = "gum"
    /\ SetSession([Session EXCEPT !.pc[i] = "denied"])
    /\ UNCHANGED <<playVars, obsVars>>
    /\ UNCHANGED transcriptVars
    /\ UNCHANGED asideVars

\* ws.onopen (line 137)
SocketOpen(i) ==
    /\ sock[i] = "CONNECTING"
    /\ SetSession([Session EXCEPT
            !.sock[i] = "OPEN", !.startDisabled = TRUE, !.stopDisabled = FALSE,
            !.listening[i] = TRUE, !.userBubble = Len(chatBox) + 1])
    /\ chatBox' = addMessage(chatBox, "user", Listening, i)
    /\ UNCHANGED <<playVars, obsVars>>
    /\ UNCHANGED <<lastAssistant, dupDropped>>
    /\ UNCHANGED asideVars

\* ws.onclose (line 138)
onclose(s) == [s EXCEPT !.startDisabled = FALSE, !.stopDisabled = TRUE]

\* The server or the transport closes a socket nobody called close() on.
SocketClosedByPeer(i) ==
    /\ sock[i] \in {"CONNECTING", "OPEN"}
    /\ SetSession(onclose([Session EXCEPT !.sock[i] = "CLOSED"]))
    /\ remoteClosed' = remoteClosed \cup {i}
    /\ UNCHANGED <<playVars, lastStop>>
    /\ UNCHANGED transcriptVars
    /\ UNCHANGED asideVars

\* The closing handshake started by ws.close() completes.
SocketCloseDone(i) ==
    /\ sock[i] = "CLOSING"
    /\ SetSession(onclose([Session EXCEPT !.sock[i] = "CLOSED"]))
    /\ UNCHANGED <<playVars, obsVars>>
    /\ UNCHANGED transcriptVars
    /\ UNCHANGED asideVars

\* A click on stopBtn, which a disabled button does not deliver.  No release
\* step throws in a browser: disconnect(), close() and stop() raise nothing.
StopClick ==
    /\ ~stopDisabled
    /\ SetSession(stopSession(Session, {}))
    /\ lastStop' = IF \E i \in Starts : Suspended(i) THEN "inAwait" ELSE "settled"
    /\ UNCHANGED <<playVars, remoteClosed>>
    /\ UNCHANGED transcriptVars
    /\ UNCHANGED asideVars

NextSession ==
    \/ \E i \in Starts : StartClick(i)
    \/ \E i \in Starts : ResumeResolved(i)
    \/ \E i \in Starts : ResumeRejected(i)
    \/ \E i \in Starts : MicGranted(i)
    \/ \E i \in Starts : MicGrantedGraphThrows(i)
    \/ \E i \in Starts : MicDenied(i)
    \/ \E i \in Starts : SocketOpen(i)
    \/ \E i \in Starts : SocketClosedByPeer(i)
    \/ \E i \in Starts : SocketCloseDone(i)
    \/ StopClick

SpecSession == InitSession /\ [][NextSession]_vars

----------------------------------------------------------------------------
(* The other branches of ws.onmessage, and a session with its messages *)

\* The test of line 148 without the comparison with lastAssistant.
rendersAssistant_NoMemory(raw, last) == raw # <<>> /\ trim(raw) # <<>>

\* line 146 and line 148: the text is rendered when msg.text is non-empty and
\* its trimmed form is non-empty and differs from lastAssistant.
rendersAssistant(raw, last) == raw # <<>> /\ trim(raw) # <<>> /\ trim(raw) # last

\* A message { role: "assistant", text: raw } on socket i.
AssistantMsg(i, raw) ==
    /\ sock[i] = "OPEN"
    /\ Len(chatBox) < MaxEntries
    /\ IF rendersAssistant(raw, lastAssistant[i])
       THEN /\ chatBox' = addMessage(chatBox, "assistant", trim(raw), i)
            /\ lastAssistant' = [lastAssistant EXCEPT ![i] = trim(raw)]
            /\ UNCHANGED dupDropped
       ELSE /\ dupDropped' = IF trim(raw) # <<>> THEN dupDropped \cup {i}
                             ELSE dupDropped
            /\ UNCHANGED <<chatBox, lastAssistant>>
    /\ UNCHANGED <<playVars, sessionVars, obsVars>>
    /\ UNCHANGED asideVars

\* A message { event: "turn_end", text: raw } on socket i.
TurnEnd(i, raw) ==
    /\ sock[i] = "OPEN"
    /\ chatBox' = updateUserBubble(chatBox, userBubble, raw)
    /\ UNCHANGED <<playVars, sessionVars, obsVars, lastAssistant, dupDropped>>
    /\ UNCHANGED asideVars

\* A text message JSON.parse rejects: line 160 logs it and the handler returns.
ParseError(i) ==
    /\ sock[i] = "OPEN"
    /\ lastEvent' = "parse_error"
    /\ UNCHANGED <<playQueue, playheadTime, wavHeaderSeen, currentTime,
                   arrived, scheduled, segPos, segBig>>
    /\ UNCHANGED <<sessionVars, obsVars, transcriptVars>>
    /\ UNCHANGED asideVars

\* An active session receiving assistant and turn_end messages, stopped and
\* started again.
InitTranscript == InitPlayback

NextTranscript ==
    \/ \E i \in Starts, raw \in RawTexts : AssistantMsg(i, raw)
    \/ \E i \in Starts, raw \in RawTexts : TurnEnd(i, raw)
    \/ StopClick
    \/ \E i \in Starts : StartClick(i)
    \/ \E i \in Starts : ResumeResolved(i)
    \/ \E i \in Starts : SocketOpen(i)

SpecTranscript == InitTranscript /\ [][NextTranscript]_vars

\* An active session receiving audio and unparseable messages, stopped and
\* started again.
InitMessages == InitPlayback

NextMessages ==
    \/ \E i \in Starts : ParseError(i)
    \/ TtsBegin
    \/ \E b64 \in MessagePayloads : TtsChunk(b64)
    \/ StopClick
    \/ \E i \in Starts : StartClick(i)
    \/ \E i \in Starts : ResumeResolved(i)
    \/ \E i \in Starts : SocketOpen(i)

SpecMessages == InitMessages /\ [][NextMessages]_vars

----------------------------------------------------------------------------
(* Capture: processor.onaudioprocess in a running session *)

\* rates an audio device runs its context at
SampleRates == {16000, 32000, 44100, 48000}

\* the input buffer of a callback: the frames asked for at line 167, and an
\* empty one, for which line 172 sends nothing
FrameLens == {0, BUFFER_SIZE}

\* The capture callback of processor i fires with a buffer of n frames.  It
\* reads the page's ws and audioContext, whichever call created them.
AudioProcess(i, n) ==
    /\ proc[i] = "connected"
    /\ ctx[pctx[i]] = "running"
    /\ captured < MaxFrames
    /\ captured' = captured + 1
    /\ LET frames == onaudioprocess(readyState, n, sampleRate)
       IN sent' = sent \o [k \in 1..Len(frames) |->
                              [frame |-> captured + 1, bytes |-> frames[k],
                               on |-> ws]]
    /\ UNCHANGED sampleRate
    /\ UNCHANGED <<playVars, sessionVars, obsVars, transcriptVars,
                   resampleVars, streamVars,
                   uploadVars>>

InitCapture ==
    /\ ActivePlayback
    /\ ActiveSession
    /\ ActiveTranscript
    /\ sampleRate \in SampleRates
    /\ captured = 0
    /\ sent = <<>>
    /\ NoResample
    /\ NoStream
    /\ NoUpload

NextCapture ==
    \/ \E i \in Starts, n \in FrameLens : AudioProcess(i, n)
    \/ StopClick
    \/ \E i \in Starts : SocketClosedByPeer(i)
    \/ \E i \in Starts : StartClick(i)
    \/ \E i \in Starts : ResumeResolved(i)
    \/ \E i \in Starts : MicGranted(i)
    \/ \E i \in Starts : SocketOpen(i)

SpecCapture == InitCapture /\ [][NextCapture]_vars

----------------------------------------------------------------------------
(* One call of downsampleBuffer *)

\* sample values
Samples == {-1, 1}

\* every buffer of up to MaxLen samples, and one capture frame
Buffers ==
    UNION {[1..n -> Samples] : n \in 0..MaxLen} \cup {Silence(BUFFER_SIZE)}

ResampleInputs ==
    {in \in [buffer : Buffers, inRate : SampleRates, outRate : SampleRates] :
        in.outRate <= in.inRate}

\* the page as loaded, nothing started
IdlePage ==
    /\ SessionIs(FreshPage)
    /\ NoObservations
    /\ playQueue = <<>>
    /\ playheadTime = 0
    /\ wavHeaderSeen = FALSE
    /\ currentTime = 0
    /\ arrived = <<>>
    /\ scheduled = <<>>
    /\ segPos = 0
    /\ segBig = FALSE
    /\ lastEvent = "load"
    /\ FreshTranscript

InitResample ==
    /\ IdlePage
    /\ NoCapture
    /\ NoStream
    /\ NoUpload
    /\ resIn \in ResampleInputs
    /\ resOut = <<>>

Downsample ==
    /\ resOut = <<>>
    /\ resOut' = <<downsampleBuffer(resIn.buffer, resIn.inRate, resIn.outRate)>>
    /\ UNCHANGED resIn
    /\ UNCHANGED <<playVars, sessionVars, obsVars, transcriptVars,
                   captureVars, streamVars,
                   uploadVars>>

NextResample == Downsample

SpecResample == InitResample /\ [][NextResample]_vars

----------------------------------------------------------------------------
(* A continuous stream: one call of downsampleBuffer per capture frame *)

InitStream ==
    /\ IdlePage
    /\ sampleRate \in SampleRates
    /\ captured = 0
    /\ sent = <<>>
    /\ NoResample
    /\ NoStream
    /\ NoUpload

StreamFrame ==
    /\ streamed < MaxStreamFrames
    /\ streamed' = streamed + 1
    /\ streamedOut' = streamedOut
          + downsampledLength(BUFFER_SIZE, sampleRate, AAI_SEND_RATE)
    /\ UNCHANGED <<playVars, sessionVars, obsVars, transcriptVars,
                   captureVars, resampleVars,
                   uploadVars>>

NextStream == StreamFrame

SpecStream == InitStream /\ [][NextStream]_vars

----------------------------------------------------------------------------
(* The upload mode (part_000): startRecording, stopRecording,              *)
(* processUploadQueue                                                      *)

\* The state the handlers of the upload page read and write.
Upload ==
    [mediaRecorder |-> mediaRecorder, uploadQueue |-> uploadQueue,
     isUploading |-> isUploading, isRecording |-> isRecording,
     micRequest |-> micRequest, recStartDisabled |-> recStartDisabled,
     recStopDisabled |-> recStopDisabled, inflight |-> inflight,
     audioPlayer |-> audioPlayer, onended |-> onended, errorMsg |-> errorMsg,
     clips |-> clips, attempts |-> attempts, failed |-> failed]

SetUpload(u) ==
    /\ mediaRecorder' = u.mediaRecorder
    /\ uploadQueue' = u.uploadQueue
    /\ isUploading' = u.isUploading
    /\ isRecording' = u.isRecording
    /\ micRequest' = u.micRequest
    /\ recStartDisabled' = u.recStartDisabled
    /\ recStopDisabled' = u.recStopDisabled
    /\ inflight' = u.inflight
    /\ audioPlayer' = u.audioPlayer
    /\ onended' = u.onended
    /\ errorMsg' = u.errorMsg
    /\ clips' = u.clips
    /\ attempts' = u.attempts
    /\ failed' = u.failed

\* processUploadQueue starting a request whether or not one is under way.
processUploadQueue_NoGuard(u) ==
    IF u.uploadQueue = <<>> THEN u
    ELSE [u EXCEPT !.isUploading = TRUE,
                   !.uploadQueue = Tail(@),
                   !.inflight = @ \cup {[clip |-> Head(u.uploadQueue),
                                          at |-> "fetch"]},
                   !.attempts = Append(@, Head(u.uploadQueue))]

\* processUploadQueue up to its first await (lines 76-88): nothing when a
\* request is under way or the queue is empty; otherwise the oldest clip is
\* taken off the queue and its fetch started.
processUploadQueue(u) ==
    IF u.isUploading \/ u.uploadQueue = <<>> THEN u
    ELSE [u EXCEPT !.isUploading = TRUE,
                   !.uploadQueue = Tail(@),
                   !.inflight = @ \cup {[clip |-> Head(u.uploadQueue),
                                          at |-> "fetch"]},
                   !.attempts = Append(@, Head(u.uploadQueue))]

\* The end of a call of processUploadQueue without the call of line 119.
finish_NoContinue(u, r) ==
    [u EXCEPT !.inflight = @ \ {r}, !.isUploading = FALSE]

\* Lines 118-119: the call that handled r is over, the flag is cleared and the
\* queue is looked at again.
finish(u, r) ==
    processUploadQueue([u EXCEPT !.inflight = @ \ {r}, !.isUploading = FALSE])

\* The catch block (lines 112-116), then lines 118-119.
catch(u, r) ==
    finish([u EXCEPT !.errorMsg = "upload", !.failed = @ \cup {r.clip}], r)

\* startRecording up to its await (lines 23-29); called by a click on startBtn
\* and by audioPlayer.onended.
startRecording(u) ==
    IF u.isRecording THEN u
    ELSE [u EXCEPT !.isRecording = TRUE, !.errorMsg = "", !.micRequest = TRUE]

\* A click on startBtn; while a recording is under way startRecording returns
\* at line 23.
StartRecordingClick ==
    /\ ~recStartDisabled
    /\ ~isRecording
    /\ clips < MaxClips
    /\ SetUpload(startRecording(Upload))
    /\ UNCHANGED <<playVars, sessionVars, obsVars, transcriptVars,
                   captureVars, resampleVars, streamVars>>

\* The reply has played to its end: onended calls startRecording (line 107).
AudioEnded ==
    /\ audioPlayer = "playing"
    /\ onended
    /\ ~isRecording => clips < MaxClips
    /\ SetUpload(startRecording([Upload EXCEPT !.audioPlayer = "idle"]))
    /\ UNCHANGED <<playVars, sessionVars, obsVars, transcriptVars,
                   captureVars, resampleVars, streamVars>>

\* getUserMedia resolves (lines 30-45).
RecorderStarted ==
    /\ micRequest
    /\ SetUpload([Upload EXCEPT !.micRequest = FALSE,
                                !.mediaRecorder = "recording",
                                !.recStartDisabled = TRUE,
                                !.recStopDisabled = FALSE])
    /\ UNCHANGED <<playVars, sessionVars, obsVars, transcriptVars,
                   captureVars, resampleVars, streamVars>>

\* getUserMedia rejects (lines 46-51).
RecorderDenied ==
    /\ micRequest
    /\ SetUpload([Upload EXCEPT !.micRequest = FALSE, !.errorMsg = "mic",
                                !.isRecording = FALSE])
    /\ UNCHANGED <<playVars, sessionVars, obsVars, transcriptVars,
                   captureVars, resampleVars, streamVars>>

\* A click on stopBtn while the recorder records (lines 60-63); on a recorder
\* that is missing or inactive stopRecording returns at line 60.
StopRecordingClick ==
    /\ ~recStopDisabled
    /\ mediaRecorder = "recording"
    /\ SetUpload([Upload EXCEPT !.mediaRecorder = "stopping"])
    /\ UNCHANGED <<playVars, sessionVars, obsVars, transcriptVars,
                   captureVars, resampleVars, streamVars>>

\* The recorder's stop event (lines 64-71): the clip is pushed and
\* processUploadQueue called.
RecorderStopped ==
    /\ mediaRecorder = "stopping"
    /\ LET pushed == [Upload EXCEPT !.mediaRecorder = "inactive",
                                    !.clips = @ + 1,
                                    !.uploadQueue = Append(@, clips + 1)]
       IN SetUpload([processUploadQueue(pushed) EXCEPT
                        !.recStartDisabled = FALSE, !.recStopDisabled = TRUE,
                        !.isRecording = FALSE])
    /\ UNCHANGED <<playVars, sessionVars, obsVars, transcriptVars,
                   captureVars, resampleVars, streamVars>>

\* what a fetch settles with: a response that is ok, a response that is not,
\* a rejection (network error, or the abort of line 86 after 15 s)
FetchOutcomes == {"ok", "not_ok", "rejected"}

\* The fetch of a call settles (lines 88-100).
FetchSettled(r, outcome) ==
    /\ r \in inflight
    /\ r.at = "fetch"
    /\ SetUpload(IF outcome = "ok"
                 THEN [Upload EXCEPT !.inflight = (@ \ {r})
                                        \cup {[r EXCEPT !.at = "json"]}]
                 ELSE catch(Upload, r))
    /\ UNCHANGED <<playVars, sessionVars, obsVars, transcriptVars,
                   captureVars, resampleVars, streamVars>>

\* what response.json() settles with: a body with audio_file, a body without,
\* a rejection
JsonOutcomes == {"audio_file", "no_audio_file", "rejected"}

\* response.json() settles (lines 100-104, 110).
JsonSettled(r, outcome) ==
    /\ r \in inflight
    /\ r.at = "json"
    /\ SetUpload(IF outcome = "audio_file"
                 THEN [Upload EXCEPT !.audioPlayer = "loading",
                                     !.inflight = (@ \ {r})
                                        \cup {[r EXCEPT !.at = "play"]}]
                 ELSE catch(Upload, r))
    /\ UNCHANGED <<playVars, sessionVars, obsVars, transcriptVars,
                   captureVars, resampleVars, streamVars>>

\* audioPlayer.play() settles (lines 104-108): resolved once playback starts,
\* rejected when the reply cannot be played or a later reply replaced it.
PlaySettled(r, resolved) ==
    /\ r \in inflight
    /\ r.at = "play"
    /\ SetUpload(IF resolved
                 THEN finish([Upload EXCEPT !.audioPlayer = "playing",
                                            !.onended = TRUE], r)
                 ELSE catch([Upload EXCEPT !.audioPlayer = "idle"], r))
    /\ UNCHANGED <<playVars, sessionVars, obsVars, transcriptVars,
                   captureVars, resampleVars, streamVars>>

InitUpload ==
    /\ IdlePage
    /\ NoCapture
    /\ NoResample
    /\ NoStream
    /\ NoUpload

NextUpload ==
    \/ StartRecordingClick
    \/ AudioEnded
    \/ RecorderStarted
    \/ RecorderDenied
    \/ StopRecordingClick
    \/ RecorderStopped
    \/ \E r \in inflight, outcome \in FetchOutcomes : FetchSettled(r, outcome)
    \/ \E r \in inflight, outcome \in JsonOutcomes : JsonSettled(r, outcome)
    \/ \E r \in inflight, resolved \in BOOLEAN : PlaySettled(r, resolved)

SpecUpload == InitUpload /\ [][NextUpload]_vars

\* Every request settles and every recorder that was stopped fires its stop
\* event.
UploadFairness ==
    /\ WF_vars(RecorderStopped)
    /\ WF_vars(\E r \in inflight, outcome \in FetchOutcomes :
                  FetchSettled(r, outcome))
    /\ WF_vars(\E r \in inflight, outcome \in JsonOutcomes :
                  JsonSettled(r, outcome))
    /\ WF_vars(\E r \in inflight, resolved \in BOOLEAN : PlaySettled(r, resolved))

SpecUploadFair == SpecUpload /\ UploadFairness

----------------------------------------------------------------------------
(* Properties of the playback scheduler (SpecPlayback) *)

\* C1: the chunks handed to the output device never overlap: every chunk
\* starts no earlier than the end (start + samples) of the chunk scheduled
\* just before it.
C1_NoOverlap ==
    \A i \in 1..(Len(scheduled) - 1) :
        scheduled[i + 1].start >= scheduled[i].start + scheduled[i].samples

\* C2 as claimed: no step of a session ever lowers playheadTime.
C2_CursorNeverLowered == [][playheadTime' >= playheadTime]_vars

\* C2: playheadTime is lowered by no step other than a tts_begin, which sets
\* it to currentTime + LOOKAHEAD whatever it was.
C2_CursorLoweredOnlyByTtsBegin ==
    [][/\ lastEvent' # "tts_begin" => playheadTime' >= playheadTime
       /\ lastEvent' = "tts_begin" => playheadTime' = currentTime + LOOKAHEAD]_vars

\* C2 witness: a chunk was scheduled behind an earlier one while the cursor was
\* ahead of now + LOOKAHEAD, after the clock had moved.
C2_Witness ==
    /\ lastEvent = "tts_chunk"
    /\ Len(scheduled) >= 2
    /\ currentTime > 0
    /\ scheduled[Len(scheduled)].start > currentTime + LOOKAHEAD
    /\ playheadTime = scheduled[Len(scheduled)].start
                        + scheduled[Len(scheduled)].samples

\* C3: every scheduled chunk starts at or after the device time read when it
\* was scheduled plus the lookahead margin.
C3_StartNotBeforeLookahead ==
    \A i \in 1..Len(scheduled) :
        scheduled[i].start >= scheduled[i].now + LOOKAHEAD

\* C3 witness: the device clock ran past the end of an earlier chunk, and the
\* next chunk was scheduled with the cursor behind now + LOOKAHEAD.
C3_Witness ==
    \E i \in 2..Len(scheduled) :
        /\ scheduled[i].now > scheduled[i - 1].start + scheduled[i - 1].samples
        /\ scheduled[i].start = scheduled[i].now + LOOKAHEAD

\* C4 as claimed: header bytes are stripped from the first payload of a
\* segment when it has >= 44 bytes, and from no later payload of the segment.
C4_StripOnlyFirstPayload ==
    \A i \in 1..Len(arrived) :
        /\ (arrived[i].pos = 1 /\ arrived[i].bytes >= WAV_HEADER_BYTES)
              => arrived[i].off = WAV_HEADER_BYTES
        /\ arrived[i].pos > 1 => arrived[i].off = 0

\* C4: in each segment exactly 44 bytes are stripped from the first payload
\* that decodes to >= 44 bytes; the payloads before it yield no samples, the
\* payloads after it are decoded whole.
C4_StripFirstLargePayload ==
    \A i \in 1..Len(arrived) :
        LET a == arrived[i] IN
        /\ a.off = (IF ~a.priorBig /\ a.bytes >= WAV_HEADER_BYTES
                    THEN WAV_HEADER_BYTES ELSE 0)
        /\ a.samples = (IF a.priorBig \/ a.bytes >= WAV_HEADER_BYTES
                        THEN (a.bytes - a.off) \div 2 ELSE 0)

\* C4 witness: a second payload of a segment was stripped after a short first
\* one, a later payload of that segment was decoded whole, or a tts_begin
\* re-armed the stripping.
C4_Witness ==
    /\ Len(arrived) = 3
    /\ arrived[1].pos = 1 /\ arrived[1].bytes \in 1..(WAV_HEADER_BYTES - 1)
    /\ arrived[2].pos = 2 /\ arrived[2].off = WAV_HEADER_BYTES
    /\ arrived[3].pos = 3 /\ arrived[3].off = 0 /\ arrived[3].samples > 0

\* the ids of the tts_chunk messages that decoded to at least one sample
NonEmptyIds ==
    LET ne == SelectSeq(arrived, LAMBDA a : a.samples > 0)
    IN [k \in 1..Len(ne) |-> [id |-> ne[k].id, samples |-> ne[k].samples]]

ScheduledIds ==
    [k \in 1..Len(scheduled) |->
        [id |-> scheduled[k].id, samples |-> scheduled[k].samples]]

\* C5: at the end of every handler the queue is empty and the chunks started
\* on the device are exactly the non-empty decoded chunks, once each, in the
\* order their tts_chunk messages arrived.
C5_ScheduledOnceInOrder ==
    /\ playQueue = <<>>
    /\ ScheduledIds = NonEmptyIds

\* C5 witness: three chunks were scheduled, the last one in a new segment
\* (after a tts_begin) and after the cursor had fallen behind the clock.
C5_Witness ==
    /\ Len(scheduled) = 3
    /\ arrived[3].pos = 1
    /\ scheduled[3].now > scheduled[2].start + scheduled[2].samples

----------------------------------------------------------------------------
(* Properties of the session controller (SpecSession) *)

IdleControls == ~startDisabled /\ stopDisabled

\* no startSession call is suspended and no socket callback is pending
Settled ==
    /\ \A i \in Starts : ~Suspended(i)
    /\ \A i \in Starts : sock[i] \notin {"CONNECTING", "CLOSING"}

\* C6: once microphone permission was denied to a session attempt and its
\* socket callbacks have run, its socket is neither connecting nor open, no
\* "listening" entry was added for it and the controls are idle.
C6_DeniedEndsIdle ==
    \A i \in Starts :
        (pc[i] = "denied" /\ Settled /\ lastStop = "none")
            => /\ sock[i] # "OPEN"
               /\ ~listening[i]
               /\ IdleControls

\* C7: when the socket of an active session (the only session started, its
\* capture graph built and its socket opened) is closed by the peer, the
\* microphone tracks are stopped, the processor and source are disconnected and
\* the context is closed.
C7_PeerCloseReleases ==
    \A i \in remoteClosed :
        (pc[i] = "done" /\ listening[i] /\ \A j \in Starts \ {i} : pc[j] = "idle")
            => /\ stream[i] # "live"
               /\ proc[i] # "connected"
               /\ src[i] # "connected"
               /\ ctx[pctx[i]] = "closed"

\* what a release step leaves behind when it ran
Released(s, step) ==
    CASE step = "processor" -> s.processor = 0 \/ s.proc[s.processor] # "connected"
      [] step = "source" -> s.source = 0 \/ s.src[s.source] # "connected"
      [] step = "ws" -> s.ws = 0 \/ s.sock[s.ws] \notin {"CONNECTING", "OPEN"}
      [] step = "tracks" -> s.mediaStream = 0 \/ s.stream[s.mediaStream] # "live"
      [] step = "context" ->
            s.audioContext = 0 \/ s.ctx[s.audioContext] \notin {"suspended", "running"}

\* the release steps that throw in one call of stopSession: none, or any one
FailingSets == {{}} \cup {{step} : step \in StepNames}

\* C8: in every state the page can be in, stopSession leaves the controls idle
\* and carries out every release step that does not throw, whichever steps
\* throw; and a second call changes nothing the first call left.
C8_StopIdempotentTotal ==
    /\ \A failing \in FailingSets :
          LET r == stopSession(Session, failing) IN
          /\ ~r.startDisabled /\ r.stopDisabled
          /\ \A step \in StepNames \ failing : Released(r, step)
    /\ LET once == stopSession(Session, {}) IN stopSession(once, {}) = once

\* C8 witness: stopSession ran while startSession was still waiting for the
\* microphone, so with no stream, source or processor acquired, and left the
\* controls idle and the socket closing.
C8_Witness ==
    /\ lastStop = "inAwait"
    /\ mediaStream = 0 /\ processor = 0 /\ source = 0
    /\ ws # 0 /\ sock[ws] = "CLOSING"
    /\ ctx[audioContext] = "closed"
    /\ IdleControls

\* C9: if the last stopSession ran while a startSession call was suspended,
\* then once every call has resumed and every callback has run, no socket is
\* open, no microphone stream is live, no processor is connected and the
\* controls are idle.
C9_StopDuringStartEndsIdle ==
    (lastStop = "inAwait" /\ Settled)
        => /\ \A i \in Starts : sock[i] # "OPEN"
           /\ \A i \in Starts : stream[i] # "live"
           /\ \A i \in Starts : proc[i] # "connected"
           /\ IdleControls

\* a capture graph that delivers frames: connected, on a running context, fed
\* by a live stream
Feeding(i) ==
    /\ proc[i] = "connected" /\ src[i] = "connected"
    /\ stream[i] = "live"
    /\ ctx[pctx[i]] = "running"

\* C10: at most one socket is connecting or open and at most one capture
\* graph is delivering frames.
C10_AtMostOneLive ==
    /\ Cardinality({i \in Starts : sock[i] \in {"CONNECTING", "OPEN"}}) <= 1
    /\ Cardinality({i \in Starts : Feeding(i)}) <= 1

\* The startSession call i is the latest one.
LatestStart(i) == pc[i] # "idle" /\ \A j \in Starts : j > i => pc[j] = "idle"

\* The call i ran to its end on its own objects, all of them live.
Healthy(i) ==
    /\ pc[i] = "done"
    /\ ws = i /\ audioContext = i /\ mediaStream = i
    /\ source = i /\ processor = i
    /\ sock[i] = "OPEN"
    /\ ctx[i] = "running"
    /\ stream[i] = "live"
    /\ proc[i] = "connected" /\ src[i] = "connected"
    /\ pctx[i] = i

\* The call j has not run, or ran to its end and has been stopped since:
\* nothing of it is live and its socket is closing or closed.
Over(j) ==
    \/ pc[j] = "idle"
    \/ /\ pc[j] = "done"
       /\ sock[j] \in {"CLOSING", "CLOSED"}
       /\ ctx[j] = "closed"
       /\ stream[j] = "stopped"
       /\ proc[j] = "disconnected" /\ src[j] = "disconnected"
       /\ pctx[j] = j

\* C19: whenever the socket of the most recently started session is open, that
\* session being whole and every earlier one stopped and released, with no
\* socket closed by the peer, the start button is disabled and the stop
\* button is enabled.
C19_ControlsReflectCurrentSession ==
    \A i \in Starts :
        ( /\ LatestStart(i)
          /\ Healthy(i)
          /\ \A j \in Starts \ {i} : Over(j)
          /\ remoteClosed = {} )
        => (startDisabled /\ ~stopDisabled)

----------------------------------------------------------------------------
(* Properties of the transcript (SpecTranscript) *)

\* The text of the last assistant entry socket i has rendered, <<>> if none.
LastAssistantText(chat, i) ==
    LET own == {k \in DOMAIN chat : chat[k].role = "assistant" /\ chat[k].by = i}
    IN IF own = {} THEN <<>>
       ELSE chat[CHOOSE k \in own : \A m \in own : m <= k].text

\* C11: an assistant message of a session appends one entry, carrying its
\* trimmed text, exactly when that text is non-empty and differs from the text
\* of the last assistant entry rendered in the session; otherwise the
\* transcript is left as it is, so a text delivered twice in a row is rendered
\* once.
C11_AssistantDeduplicated ==
    [][\A i \in Starts, raw \in RawTexts :
          AssistantMsg(i, raw) =>
             IF trim(raw) # <<>> /\ trim(raw) # LastAssistantText(chatBox, i)
             THEN /\ Len(chatBox') = Len(chatBox) + 1
                  /\ SubSeq(chatBox', 1, Len(chatBox)) = chatBox
                  /\ chatBox'[Len(chatBox')].role = "assistant"
                  /\ chatBox'[Len(chatBox')].text = trim(raw)
             ELSE chatBox' = chatBox]_vars

\* A socket has dropped a repeated text and its session shows that text once.
C11_Witness ==
    \E i \in dupDropped :
        /\ Cardinality({k \in DOMAIN chatBox :
                chatBox[k].role = "assistant" /\ chatBox[k].by = i}) = 1
        /\ LastAssistantText(chatBox, i) = <<"a">>

\* C16: once a turn_end has written a user entry, no later step changes the
\* text of that entry.
C16_FinalizedEntryImmutable ==
    [][\A k \in DOMAIN chatBox :
          chatBox[k].final =>
             /\ k \in DOMAIN chatBox'
             /\ chatBox'[k].text = chatBox[k].text]_vars

----------------------------------------------------------------------------
(* Properties of a session with its messages (SpecMessages) *)

\* The step handles a tts_chunk whose payload is undecodable.
MalformedChunkStep ==
    /\ Len(arrived') = Len(arrived) + 1
    /\ ~arrived'[Len(arrived')].valid

\* The step handles a tts_chunk that decodes to no sample.
EmptyChunkStep ==
    /\ Len(arrived') = Len(arrived) + 1
    /\ arrived'[Len(arrived')].samples = 0

\* C12: a message JSON.parse rejects, a tts_chunk with an undecodable payload
\* and a tts_chunk that decodes to no sample each leave every socket in its
\* state, the queue, the started sources, the cursor and the transcript as
\* they were (the first two leave the header flag too); and every chunk that
\* did decode to samples has been started once, whatever was dropped before
\* it.
C12_PayloadErrorsDropped ==
    /\ [][((\E i \in Starts : ParseError(i)) \/ MalformedChunkStep
                                              \/ EmptyChunkStep)
            => /\ UNCHANGED <<sock, ws, playQueue, scheduled, playheadTime,
                              chatBox>>
               /\ (~EmptyChunkStep \/ MalformedChunkStep)
                     => UNCHANGED wavHeaderSeen]_vars
    /\ [](\A k \in DOMAIN arrived :
            arrived[k].samples > 0 =>
               Cardinality({m \in DOMAIN scheduled : scheduled[m].id = k}) = 1)

\* An undecodable payload was dropped, the chunk after it was started, a chunk
\* without samples was dropped and an unparseable message was ignored, with
\* the socket still open.
C12_Witness ==
    /\ lastEvent = "parse_error"
    /\ Delivering
    /\ \E k \in DOMAIN arrived :
          /\ ~arrived[k].valid
          /\ k + 1 \in DOMAIN arrived
          /\ arrived[k + 1].samples > 0
          /\ \E m \in DOMAIN scheduled : scheduled[m].id = k + 1
    /\ \E k \in DOMAIN arrived : arrived[k].valid /\ arrived[k].samples = 0

\* The step is a call of startSession up to its first await.
StartStep(i) == pc[i] = "idle" /\ pc'[i] = "resume"

\* C17 as stated: every start empties the queue, clears the header flag, puts
\* the cursor at 0, forgets the user entry and clears the transcript.
C17_StartResetsAll ==
    [][\A i \in Starts :
          StartStep(i) =>
             /\ playQueue' = <<>>
             /\ wavHeaderSeen' = FALSE
             /\ playheadTime' = 0
             /\ userBubble' = 0
             /\ chatBox' = <<>>]_vars

\* C17: every start empties the queue, clears the header flag, puts the
\* cursor at 0 and forgets the user entry, and leaves the transcript as it
\* is; the socket it then creates has an empty de-duplication memory.
C17_StartResetsPlaybackKeepsTranscript ==
    [][\A i \in Starts :
          /\ StartStep(i) =>
                /\ playQueue' = <<>>
                /\ wavHeaderSeen' = FALSE
                /\ playheadTime' = 0
                /\ userBubble' = 0
                /\ chatBox' = chatBox
          /\ (pc[i] = "resume" /\ pc'[i] = "gum") =>
                /\ ws' = i
                /\ lastAssistant'[i] = <<>>]_vars

\* A second start after a session that had audio started: the cursor is back
\* at 0 and the entry of the earlier session is still in the transcript.
C17_Witness ==
    /\ lastEvent = "startSession"
    /\ \E i \in Starts : i > 1 /\ pc[i] = "resume"
    /\ scheduled # <<>>
    /\ playheadTime = 0
    /\ ~wavHeaderSeen
    /\ userBubble = 0
    /\ chatBox # <<>>

----------------------------------------------------------------------------
(* Properties of the capture path (SpecCapture, SpecResample, SpecStream) *)

\* C13: a capture callback that fires while the page's socket is open and
\* whose resampled frame is not empty sends one binary frame of twice the
\* resampled length in bytes, after the frames sent before it; any other
\* callback sends nothing, and no other step sends anything, so a dropped
\* frame is never sent later.
C13_OneFramePerOpenCallback ==
    [][/\ \A i \in Starts, n \in FrameLens :
             AudioProcess(i, n) =>
                LET resampled == downsampledLength(n, sampleRate, AAI_SEND_RATE)
                IN IF ws # 0 /\ sock[ws] = "OPEN" /\ resampled > 0
                   THEN sent' = Append(sent, [frame |-> captured + 1,
                                              bytes |-> 2 * resampled,
                                              on |-> ws])
                   ELSE sent' = sent
       /\ captured' = captured => sent' = sent]_vars

\* The first frame was sent, the second dropped, and the third sent on the
\* socket of a later start, as 1486 samples of a 44100 Hz device.
C13_Witness ==
    /\ captured = 3
    /\ Len(sent) = 2
    /\ sent[1].frame = 1 /\ sent[1].on = 1
    /\ sent[2].frame = 3 /\ sent[2].on = 2
    /\ sent[2].bytes = 2972

\* the nearest integer to a / b, halves upwards, for 0 <= a <= top * b
Nearest(a, b, top) ==
    CHOOSE m \in 0..top : 2 * m * b <= 2 * a + b /\ 2 * a + b < 2 * (m + 1) * b

\* C14: downsampleBuffer returns its input when the two rates are equal, and
\* otherwise a sequence whose length is the nearest integer to
\* len(buffer) x R_out / R_in.
C14_DownsampledLength ==
    resOut # <<>> =>
        IF resIn.inRate = resIn.outRate
        THEN resOut[1] = resIn.buffer
        ELSE Len(resOut[1]) =
                Nearest(Len(resIn.buffer) * resIn.outRate, resIn.inRate,
                        Len(resIn.buffer))

\* Three samples at twice the output rate came out as two.
C14_Witness ==
    /\ resOut # <<>>
    /\ Len(resIn.buffer) = 3
    /\ resIn.inRate = 32000 /\ resIn.outRate = 16000
    /\ Len(resOut[1]) = 2

\* C18: on a 44100 Hz device the samples produced by K capture frames differ
\* from round(K x 4096 x 16000 / 44100) by at most 1.
C18_DriftBounded ==
    sampleRate = OUTPUT_RATE =>
        LET expected == Round(streamed * BUFFER_SIZE * (AAI_SEND_RATE \div 100),
                              OUTPUT_RATE \div 100)
        IN /\ streamedOut - expected <= 1
           /\ expected - streamedOut <= 1

----------------------------------------------------------------------------
(* Properties of the upload mode (SpecUpload, SpecUploadFair) *)

\* the calls of processUploadQueue whose request has not settled
Unsettled == {r \in inflight : r.at \in {"fetch", "json"}}

\* C15: at most one upload request is unsettled at any time, and the clips
\* are uploaded in the order they were queued: the k-th fetch started is that
\* of the k-th clip pushed.
C15_OneUploadInFlightFifo ==
    /\ Cardinality(Unsettled) <= 1
    /\ \A k \in DOMAIN attempts : attempts[k] = k
    /\ uploadQueue = [k \in 1..(clips - Len(attempts)) |-> Len(attempts) + k]

\* The second clip is being uploaded, after the first, and the third waits.
C15_Witness ==
    /\ attempts = <<1, 2>>
    /\ inflight = {[clip |-> 2, at |-> "fetch"]}
    /\ uploadQueue = <<3>>

====
